---------------------------- MODULE Spec2Model ----------------------------
(***************************************************************************)
(* The actor/movie graph of KriszD/CSC111_Project_2: the Graph class       *)
(* (vertex and edge storage), its breadth-first searches, the filtered     *)
(* search of the later Graph variant, and the similarity ranking.          *)
(***************************************************************************)
EXTENDS Integers, Sequences, FiniteSets, TLC

(***************************************************************************)
(* Bounds of the model.                                                    *)
(***************************************************************************)
\* number of vertex keys the generic graph specifications range over
NumKeys == 3

KeyNames == <<"k1", "k2", "k3", "k4", "k5", "k6">>

Keys == {KeyNames[i] : i \in 1..NumKeys}

\* a key that is never added to a graph (a name the user mistyped)
Absent == "nobody"

Kinds == {"actor", "movie"}

\* number of actor names and of movie names of a dataset
NumActors == 3

NumMovies == 2

\* release years and ratings of a dataset lie in 1..MaxAttr
MaxAttr == 2

ActorNames == <<"a1", "a2", "a3", "a4", "a5">>

MovieNames == <<"m1", "m2", "m3", "m4", "m5", "m6">>

Actors == {ActorNames[i] : i \in 1..NumActors}

Movies == {MovieNames[i] : i \in 1..NumMovies}

Attrs == 1..MaxAttr

\* number of cast names, of movies and the largest limit of the
\* recommendation queries
NumCast == 2

NumSimMovies == 3

MaxLimit == 2

\* number of movies of a dataset of the filtered recommendation queries
NumRecMovies == 2

\* number of keys of the graph built with every mutator
NumStoreKeys == 2

CastNames == <<"c1", "c2", "c3", "c4">>

Cast == {CastNames[i] : i \in 1..NumCast}

SimMovies == {MovieNames[i] : i \in 1..NumSimMovies}

\* float("inf")
Inf == -1

VARIABLES
    vertices,   \* Graph._vertices: key -> vertex record
    movies,     \* the movies dictionary of the loader, in insertion order:
                \* a sequence of [name, cast, info], info = <<year, votes, rating>>
    prev,       \* the call answered before the running one, and its answer
    pc,         \* where the running call is: "idle", a loop name, or "done"
    call,       \* the arguments of the running (or last) call
    queue,      \* the BFS deque
    visited,    \* the BFS visited set
    distances,  \* the distances dictionary of shortest_distance_bfs
    ret,        \* the value the last call returned
    err         \* the exception the last call raised, "none" if it returned

vars == <<vertices, movies, prev, pc, call, queue, visited, distances, ret, err>>

bfsVars == <<queue, visited, distances>>

dataVars == <<movies, prev>>

NoCall == [op |-> "none"]

(***************************************************************************)
(* _Vertex and the mutators of Graph (src/graph_entities.py).              *)
(***************************************************************************)
\* _Vertex.__init__; movie_info is not set there: <<>> stands for "not set"
Vertex(item, kind) ==
    [item |-> item, kind |-> kind, neighbours |-> {},
     appearences |-> {}, cast_members |-> {}, movie_info |-> <<>>]

InGraph(item) == item \in DOMAIN vertices

\* self._vertices[item] = _Vertex(item, kind) whether or not the item is in
\* the graph: a second add_vertex replaces the vertex (mutant)
put_vertex_overwrite(g, item, kind) ==
    [k \in DOMAIN g \cup {item} |->
        IF k = item THEN Vertex(item, kind) ELSE g[k]]

\* Graph.add_vertex on the dictionary g
put_vertex(g, item, kind) ==
    IF item \notin DOMAIN g
    THEN [k \in DOMAIN g \cup {item} |->
            IF k = item THEN Vertex(item, kind) ELSE g[k]]
    ELSE g

add_vertex(item, kind) ==
    /\ pc = "idle"
    /\ vertices' = put_vertex(vertices, item, kind)
    /\ err' = "none"
    /\ call' = [op |-> "add_vertex", item |-> item, kind |-> kind]
    /\ UNCHANGED <<pc, ret, bfsVars, dataVars>>

\* v1.neighbours.add(v2) alone: the edge recorded at item1 only (mutant)
put_edge_one_way(g, item1, item2) ==
    [g EXCEPT ![item1].neighbours = @ \cup {item2}]

\* v1.neighbours.add(v2); v2.neighbours.add(v1) on the dictionary g
put_edge(g, item1, item2) ==
    LET g1 == [g EXCEPT ![item1].neighbours = @ \cup {item2}]
    IN  [g1 EXCEPT ![item2].neighbours = @ \cup {item1}]

\* an add_edge that records the edge at whichever of the two items is in
\* the graph before it raises (mutant)
add_edge_before_check(item1, item2) ==
    /\ pc = "idle"
    /\ call' = [op |-> "add_edge", item1 |-> item1, item2 |-> item2]
    /\ IF InGraph(item1) /\ InGraph(item2)
       THEN /\ vertices' = put_edge(vertices, item1, item2)
            /\ err' = "none"
       ELSE /\ err' = "ValueError"
            /\ vertices' = [k \in DOMAIN vertices |->
                    IF k = item1 THEN [vertices[k] EXCEPT !.neighbours = @ \cup {item2}]
                    ELSE IF k = item2
                    THEN [vertices[k] EXCEPT !.neighbours = @ \cup {item1}]
                    ELSE vertices[k]]
    /\ UNCHANGED <<pc, ret, bfsVars, dataVars>>

add_edge(item1, item2) ==
    /\ pc = "idle"
    /\ call' = [op |-> "add_edge", item1 |-> item1, item2 |-> item2]
    /\ IF InGraph(item1) /\ InGraph(item2)
       THEN /\ vertices' = put_edge(vertices, item1, item2)
            /\ err' = "none"
       ELSE /\ err' = "ValueError"
            /\ UNCHANGED vertices
    /\ UNCHANGED <<pc, ret, bfsVars, dataVars>>

\* self._vertices[actor].appearences.add(movie) on the dictionary g
put_appearence(g, actor, movie) ==
    [g EXCEPT ![actor].appearences = @ \cup {movie}]

add_appearences(actor, movie) ==
    /\ pc = "idle"
    /\ call' = [op |-> "add_appearences", item |-> actor, movie |-> movie]
    /\ IF InGraph(actor)
       THEN /\ vertices' = put_appearence(vertices, actor, movie)
            /\ err' = "none"
       ELSE /\ err' = "ValueError"
            /\ UNCHANGED vertices
    /\ UNCHANGED <<pc, ret, bfsVars, dataVars>>

\* cast_members.update(actors); movie_info = movie_info on the dictionary g
put_movie_info(g, movie, actors, movie_info) ==
    [g EXCEPT ![movie].cast_members = @ \cup actors,
              ![movie].movie_info = movie_info]

add_movie_info(movie, actors, movie_info) ==
    /\ pc = "idle"
    /\ call' = [op |-> "add_movie_info", item |-> movie, actors |-> actors,
                movie_info |-> movie_info]
    /\ IF InGraph(movie)
       THEN /\ vertices' = put_movie_info(vertices, movie, actors, movie_info)
            /\ err' = "none"
       ELSE /\ err' = "ValueError"
            /\ UNCHANGED vertices
    /\ UNCHANGED <<pc, ret, bfsVars, dataVars>>

(***************************************************************************)
(* The lookups of Graph.                                                   *)
(***************************************************************************)
adjacent(item1, item2) ==
    IF InGraph(item1) /\ InGraph(item2)
    THEN \E v2 \in vertices[item1].neighbours : v2 = item2
    ELSE FALSE

get_all_vertices(kind) ==
    IF kind # ""
    THEN {k \in DOMAIN vertices : vertices[k].kind = kind}
    ELSE DOMAIN vertices

(***************************************************************************)
(* The graph under construction: any sequence of add_vertex and add_edge   *)
(* calls, with any arguments, on a graph that starts empty.                *)
(***************************************************************************)
EmptyGraph == [k \in {} |-> Vertex(k, "actor")]

InitGraph ==
    /\ vertices = EmptyGraph
    /\ pc = "idle"
    /\ call = NoCall
    /\ movies = <<>>
    /\ prev = NoCall
    /\ queue = <<>>
    /\ visited = {}
    /\ distances = <<>>
    /\ ret = <<>>
    /\ err = "none"

NextGraph ==
    \/ \E item \in Keys, kind \in Kinds : add_vertex(item, kind)
    \/ \E item1 \in Keys, item2 \in Keys : add_edge(item1, item2)

SpecGraph == InitGraph /\ [][NextGraph]_vars

(***************************************************************************)
(* Claims about the graph under construction.                              *)
(***************************************************************************)

\* C3: in every state reached by add_vertex and add_edge calls, adjacency is
\* symmetric: adjacent(a, b) = adjacent(b, a) for all keys a and b.
C3_AdjacencySymmetric ==
    \A a \in Keys \cup {Absent}, b \in Keys \cup {Absent} :
        adjacent(a, b) = adjacent(b, a)

\* C3 witness: add_edge has joined two different vertices.
C3_Witness ==
    /\ call.op = "add_edge"
    /\ err = "none"
    /\ call.item1 # call.item2
    /\ adjacent(call.item1, call.item2)
    /\ adjacent(call.item2, call.item1)

\* C4 (as claimed): whatever the arguments of add_vertex and add_edge, no
\* vertex is a member of its own neighbour set.
C4_NoSelfNeighbour ==
    \A k \in DOMAIN vertices : k \notin vertices[k].neighbours

(***************************************************************************)
(* The graph built with every mutator: any sequence of add_vertex,         *)
(* add_edge, add_appearences and add_movie_info calls on a graph that      *)
(* starts empty.  The mutators are called with the keys of the graph and   *)
(* with a key that is never added; add_edge is called within its           *)
(* documented precondition, item1 != item2.                                *)
(***************************************************************************)
StoreKeys == {KeyNames[i] : i \in 1..NumStoreKeys}

\* the arguments of add_edge: two different keys
StorePairs ==
    {p \in (StoreKeys \cup {Absent}) \X (StoreKeys \cup {Absent}) : p[1] # p[2]}

NextStore ==
    \/ \E item \in StoreKeys, kind \in Kinds : add_vertex(item, kind)
    \/ \E p \in StorePairs : add_edge(p[1], p[2])
    \/ \E actor \in StoreKeys \cup {Absent} : add_appearences(actor, MovieNames[1])
    \/ \E movie \in StoreKeys \cup {Absent} :
            add_movie_info(movie, {CastNames[1]}, <<1, 0, 1>>)

SpecStore == InitGraph /\ [][NextStore]_vars

\* C15: a step of add_vertex on a key that is already in the graph changes
\* no vertex: the key keeps its first kind, its neighbours, its appearances
\* and its cast members, and no other vertex changes.
C15_AddVertexIdempotent ==
    [][(call'.op = "add_vertex" /\ call'.item \in DOMAIN vertices) =>
            vertices' = vertices]_vars

\* C15 witness: add_vertex was called with a kind other than the one the
\* vertex has, on a vertex that has a neighbour, an appearance and a cast
\* member.
C15_Witness ==
    /\ call.op = "add_vertex"
    /\ InGraph(call.item)
    /\ vertices[call.item].kind # call.kind
    /\ vertices[call.item].neighbours # {}
    /\ vertices[call.item].appearences # {}
    /\ vertices[call.item].cast_members # {}

\* C16: a step of add_edge with a key that is not in the graph raises
\* ValueError (NotFound) and changes no vertex: none is created and no
\* neighbour set grows, also when the other key is in the graph.
C16_AddEdgeNotFound ==
    [][(/\ call'.op = "add_edge"
        /\ \/ call'.item1 \notin DOMAIN vertices
           \/ call'.item2 \notin DOMAIN vertices) =>
            (err' = "ValueError" /\ vertices' = vertices)]_vars

\* C16 witness: add_edge raised for one key that is in the graph and one
\* that is not.
C16_Witness ==
    /\ call.op = "add_edge"
    /\ err = "ValueError"
    /\ InGraph(call.item1) # InGraph(call.item2)

\* C25 (as claimed): whatever add_vertex, add_appearences and add_movie_info
\* calls have been made, only a vertex of kind 'actor' has appearances and
\* only a vertex of kind 'movie' has cast members or movie attributes.
C25_PayloadMatchesKind ==
    \A k \in DOMAIN vertices :
        /\ vertices[k].appearences # {} => vertices[k].kind = "actor"
        /\ (vertices[k].cast_members # {} \/ vertices[k].movie_info # <<>>) =>
                vertices[k].kind = "movie"


(***************************************************************************)
(* Breadth-first search (src/graph_entities.py).  A Python set is iterated *)
(* in an order the program does not control, so each for loop over a       *)
(* neighbour set runs in an arbitrary order of that set.                   *)
(***************************************************************************)
Orderings(S) ==
    {f \in [1..Cardinality(S) -> S] :
        \A i \in DOMAIN f, j \in DOMAIN f : i # j => f[i] # f[j]}

\* queue = deque([(starting_item, [])]): the start left out of its own path (mutant)
path_queue_without_start(starting_item) ==
    <<[item |-> starting_item, path |-> <<>>]>>

\* queue = deque([(starting_item, [starting_item])])
path_queue(starting_item) ==
    <<[item |-> starting_item, path |-> <<starting_item>>]>>

\* a search that answers [] for a key that is not in the graph (mutant)
shortest_path_bfs_absent_empty(starting_item, target_item) ==
    /\ pc = "idle"
    /\ call' = [op |-> "shortest_path_bfs",
                start |-> starting_item, target |-> target_item]
    /\ IF ~InGraph(starting_item) \/ ~InGraph(target_item)
       THEN /\ err' = "none"
            /\ ret' = <<>>
            /\ pc' = "done"
            /\ UNCHANGED <<queue, visited>>
       ELSE /\ queue' = path_queue(starting_item)
            /\ visited' = {starting_item}
            /\ err' = "none"
            /\ pc' = "path"
            /\ UNCHANGED ret
    /\ UNCHANGED <<vertices, distances, dataVars>>

shortest_path_bfs(starting_item, target_item) ==
    /\ pc = "idle"
    /\ call' = [op |-> "shortest_path_bfs",
                start |-> starting_item, target |-> target_item]
    /\ IF ~InGraph(starting_item) \/ ~InGraph(target_item)
       THEN /\ err' = "ValueError"
            /\ pc' = "done"
            /\ UNCHANGED <<queue, visited>>
       ELSE /\ queue' = path_queue(starting_item)
            /\ visited' = {starting_item}
            /\ err' = "none"
            /\ pc' = "path"
    /\ UNCHANGED <<vertices, distances, ret, dataVars>>

RECURSIVE path_for_neighbours_revisit(_, _, _, _)
\* the for loop of shortest_path_bfs without "if neighbour.item not in
\* visited": every neighbour is put in the queue
path_for_neighbours_revisit(order, q, vis, path) ==
    IF order = <<>>
    THEN [queue |-> q, visited |-> vis]
    ELSE LET neighbour == Head(order)
         IN  path_for_neighbours_revisit(Tail(order),
                 Append(q, [item |-> neighbour,
                            path |-> Append(path, neighbour)]),
                 vis \cup {neighbour}, path)

RECURSIVE path_for_neighbours(_, _, _, _)
\* for neighbour in self._vertices[current_actor].neighbours: ... of
\* shortest_path_bfs, the neighbours taken in the order given
path_for_neighbours(order, q, vis, path) ==
    IF order = <<>>
    THEN [queue |-> q, visited |-> vis]
    ELSE LET neighbour == Head(order)
         IN  IF neighbour \notin vis
             THEN path_for_neighbours(Tail(order),
                      Append(q, [item |-> neighbour,
                                 path |-> Append(path, neighbour)]),
                      vis \cup {neighbour}, path)
             ELSE path_for_neighbours(Tail(order), q, vis, path)

\* where a search goes once it returns: to bacon_path when bacon_path
\* (called itself, or by bacon_number) called it
returned_to(label) ==
    IF call.op \in {"bacon_path", "bacon_number"} THEN label ELSE "done"

\* one turn of the while loop of shortest_path_bfs, or its exit
shortest_path_bfs_loop ==
    /\ pc = "path"
    /\ IF queue = <<>>
       THEN /\ ret' = <<>>
            /\ pc' = returned_to("bacon_path_33")
            /\ UNCHANGED <<queue, visited>>
       ELSE LET current_actor == Head(queue).item
                path == Head(queue).path
            IN  IF current_actor = call.target
                THEN /\ ret' = path
                     /\ pc' = returned_to("bacon_path_33")
                     /\ queue' = Tail(queue)
                     /\ UNCHANGED visited
                ELSE \E order \in Orderings(vertices[current_actor].neighbours) :
                        LET after == path_for_neighbours(order, Tail(queue),
                                                         visited, path)
                        IN  /\ queue' = after.queue
                            /\ visited' = after.visited
                            /\ UNCHANGED <<ret, pc>>
    /\ UNCHANGED <<vertices, call, distances, err, dataVars>>

shortest_distance_bfs(starting_item) ==
    /\ pc = "idle"
    /\ call' = [op |-> "shortest_distance_bfs", start |-> starting_item]
    /\ IF ~InGraph(starting_item)
       THEN /\ err' = "ValueError"
            /\ pc' = "done"
            /\ UNCHANGED <<queue, visited, distances>>
       ELSE /\ distances' = [actor \in DOMAIN vertices |->
                                IF actor = starting_item THEN 0 ELSE Inf]
            /\ queue' = <<starting_item>>
            /\ visited' = {starting_item}
            /\ err' = "none"
            /\ pc' = "distance"
    /\ UNCHANGED <<vertices, ret, dataVars>>

RECURSIVE distance_for_neighbours_from_start(_, _, _, _, _)
\* distances[neighbour.item] = distances[starting_item] + 1: every key found
\* is put one hop from the start (mutant)
distance_for_neighbours_from_start(order, q, vis, dist, current_actor) ==
    IF order = <<>>
    THEN [queue |-> q, visited |-> vis, distances |-> dist]
    ELSE LET neighbour == Head(order)
         IN  IF neighbour \notin vis
             THEN distance_for_neighbours_from_start(Tail(order),
                      Append(q, neighbour), vis \cup {neighbour},
                      [dist EXCEPT ![neighbour] = 1], current_actor)
             ELSE distance_for_neighbours_from_start(Tail(order), q, vis, dist,
                                                     current_actor)

RECURSIVE distance_for_neighbours(_, _, _, _, _)
\* the for loop of shortest_distance_bfs, the neighbours taken in the order given
distance_for_neighbours(order, q, vis, dist, current_actor) ==
    IF order = <<>>
    THEN [queue |-> q, visited |-> vis, distances |-> dist]
    ELSE LET neighbour == Head(order)
         IN  IF neighbour \notin vis
             THEN distance_for_neighbours(Tail(order), Append(q, neighbour),
                      vis \cup {neighbour},
                      [dist EXCEPT ![neighbour] = dist[current_actor] + 1],
                      current_actor)
             ELSE distance_for_neighbours(Tail(order), q, vis, dist,
                                          current_actor)

\* where shortest_distance_bfs goes once it returns: to average_bacon_number
\* when average_bacon_number called it
distance_returned_to ==
    IF call.op = "average_bacon_number" THEN "average_bacon_number_136" ELSE "done"

\* one turn of the while loop of shortest_distance_bfs, or its exit
shortest_distance_bfs_loop ==
    /\ pc = "distance"
    /\ IF queue = <<>>
       THEN /\ ret' = distances
            /\ pc' = distance_returned_to
            /\ UNCHANGED <<queue, visited, distances>>
       ELSE LET current_actor == Head(queue)
            IN  \E order \in Orderings(vertices[current_actor].neighbours) :
                    LET after == distance_for_neighbours(order, Tail(queue),
                                     visited, distances, current_actor)
                    IN  /\ queue' = after.queue
                        /\ visited' = after.visited
                        /\ distances' = after.distances
                        /\ UNCHANGED <<ret, pc>>
    /\ UNCHANGED <<vertices, call, err, dataVars>>

(***************************************************************************)
(* average_bacon_number (src/calculations.py).  An average is the pair of  *)
(* the two sums the source divides, [num / den]; float("inf") is Inf / 1.  *)
(***************************************************************************)
Infinite == [num |-> Inf, den |-> 1]

RECURSIVE sum_of(_, _)
\* sum(dist[k] for k in keys)
sum_of(dist, keys) ==
    IF keys = {}
    THEN 0
    ELSE LET k == CHOOSE x \in keys : TRUE
         IN  dist[k] + sum_of(dist, keys \ {k})

\* total_reachable = sum(1 for dist in distances.values() if dist != inf)
total_reachable(dist) ==
    Cardinality({k \in DOMAIN dist : dist[k] # Inf})

\* total_distance = sum(dist for dist in distances.values() if dist != inf)
total_distance(dist) ==
    sum_of(dist, {k \in DOMAIN dist : dist[k] # Inf})

\* the check of the actor, then the call of graph.shortest_distance_bfs
average_bacon_number(actor) ==
    /\ pc = "idle"
    /\ call' = [op |-> "average_bacon_number", start |-> actor]
    /\ IF actor \notin get_all_vertices("actor")
       THEN /\ err' = "ValueError"
            /\ pc' = "done"
            /\ UNCHANGED <<queue, visited, distances>>
       ELSE /\ distances' = [k \in DOMAIN vertices |->
                                IF k = actor THEN 0 ELSE Inf]
            /\ queue' = <<actor>>
            /\ visited' = {actor}
            /\ err' = "none"
            /\ pc' = "distance"
    /\ UNCHANGED <<vertices, ret, dataVars>>

\* total_distance / total_reachable if total_reachable > 0 else float("inf")
average_bacon_number_return ==
    /\ pc = "average_bacon_number_136"
    /\ ret' = IF total_reachable(ret) > 0
              THEN [num |-> total_distance(ret), den |-> total_reachable(ret)]
              ELSE Infinite
    /\ pc' = "done"
    /\ UNCHANGED <<vertices, call, err, bfsVars, dataVars>>

(***************************************************************************)
(* The movies dictionary (src/graph_create.py: load_csv_file): movie name  *)
(* -> (cast, (year, votes, rating)).  The attributes are held as numbers.  *)
(***************************************************************************)
movie_names == {movies[i].name : i \in DOMAIN movies}

\* movies[movie]
movie_entry(movie) == movies[CHOOSE i \in DOMAIN movies : movies[i].name = movie]

\* movies[movie][1][0] and movies[movie][1][2]
movie_year(movie) == movie_entry(movie).info[1]

movie_rating(movie) == movie_entry(movie).info[3]

(***************************************************************************)
(* The filtered search (src/Datasets/graph_entities_v2.py).                *)
(***************************************************************************)
\* get_common_movies without the intersection: the movies of the first key
get_common_movies_first(item1, item2) ==
    vertices[item1].appearences

\* Graph.get_common_movies when both keys are in the graph
get_common_movies(item1, item2) ==
    vertices[item1].appearences \cap vertices[item2].appearences

\* filter_by_key without the else that raises KeyError: an unknown key is
\* filtered like 'rating' and never raises
filter_by_key_no_key_error(actor1, actor2, key, lower, upper) ==
    IF InGraph(actor1) /\ InGraph(actor2)
    THEN LET common == get_common_movies(actor1, actor2) \cap movie_names
             attr(movie) == IF key = "year" THEN movie_year(movie)
                            ELSE movie_rating(movie)
             common_filtered == {movie \in common :
                 lower <= attr(movie) /\ attr(movie) <= upper}
         IN  [raised |-> "none", is_valid |-> common_filtered # {},
              found |-> common_filtered]
    ELSE [raised |-> "ValueError", is_valid |-> FALSE, found |-> {}]

\* Graph.filter_by_key: what it returns, or the exception it raises.  The
\* else of the source belongs to "if key == 'rating'", so a 'year' call that
\* finds no movie in range goes on into it.
filter_by_key(actor1, actor2, key, lower, upper) ==
    IF InGraph(actor1) /\ InGraph(actor2)
    THEN LET common == get_common_movies(actor1, actor2)
             year_filtered == {movie \in common :
                 lower <= movie_year(movie) /\ movie_year(movie) <= upper}
             rating_filtered == {movie \in common :
                 lower <= movie_rating(movie) /\ movie_rating(movie) <= upper}
             unknown == key \in {"year", "rating"} /\ ~(common \subseteq movie_names)
         IN  IF unknown
             THEN [raised |-> "KeyError", is_valid |-> FALSE, found |-> {}]
             ELSE IF key = "year" /\ year_filtered # {}
             THEN [raised |-> "none", is_valid |-> TRUE, found |-> year_filtered]
             ELSE IF key = "rating"
             THEN IF rating_filtered # {}
                  THEN [raised |-> "none", is_valid |-> TRUE,
                        found |-> rating_filtered]
                  ELSE [raised |-> "none", is_valid |-> FALSE, found |-> {}]
             ELSE [raised |-> "KeyError", is_valid |-> FALSE, found |-> {}]
    ELSE [raised |-> "ValueError", is_valid |-> FALSE, found |-> {}]

\* a filtered search may follow an answered search between the same two keys:
\* the unfiltered one, or a filtered one on the same key with a wider range
narrows(starting_item, target_item, key, lower, upper) ==
    /\ pc = "done"
    /\ err = "none"
    /\ prev = NoCall
    /\ call.op \in {"shortest_path_bfs", "shortest_path_bfs_filtered"}
    /\ call.start = starting_item
    /\ call.target = target_item
    /\ call.op = "shortest_path_bfs_filtered" =>
            /\ call.key = key
            /\ call.lower <= lower
            /\ upper <= call.upper
            /\ <<lower, upper>> # <<call.lower, call.upper>>

shortest_path_bfs_filtered(starting_item, target_item, key, lower, upper) ==
    /\ pc = "idle" \/ narrows(starting_item, target_item, key, lower, upper)
    /\ prev' = IF pc = "done" THEN [call |-> call, ret |-> ret] ELSE prev
    /\ call' = [op |-> "shortest_path_bfs_filtered",
                start |-> starting_item, target |-> target_item,
                key |-> key, lower |-> lower, upper |-> upper]
    /\ IF ~InGraph(starting_item) \/ ~InGraph(target_item)
       THEN /\ err' = "ValueError"
            /\ pc' = "done"
            /\ UNCHANGED <<queue, visited>>
       ELSE /\ queue' = path_queue(starting_item)
            /\ visited' = {starting_item}
            /\ err' = "none"
            /\ pc' = "filtered"
    /\ UNCHANGED <<vertices, movies, distances, ret>>

RECURSIVE filtered_for_neighbours_requeue(_, _, _, _, _)
\* the for loop of shortest_path_bfs_filtered after queue[0] in the place of
\* queue.popleft(): the key the turn has taken is in the deque again
filtered_for_neighbours_requeue(order, q, vis, path, current_actor) ==
    IF order = <<>>
    THEN [queue |-> Append(q, [item |-> current_actor, path |-> path]),
          visited |-> vis, raised |-> "none"]
    ELSE LET neighbour == Head(order)
             checked == filter_by_key(current_actor, neighbour, call.key,
                                      call.upper, call.lower)
         IN  IF neighbour \in vis
             THEN filtered_for_neighbours_requeue(Tail(order), q, vis, path,
                                                  current_actor)
             ELSE IF checked.raised # "none"
             THEN [queue |-> q, visited |-> vis, raised |-> checked.raised]
             ELSE IF checked.is_valid
             THEN filtered_for_neighbours_requeue(Tail(order),
                      Append(q, [item |-> neighbour,
                                 path |-> Append(path, neighbour)]),
                      vis \cup {neighbour}, path, current_actor)
             ELSE filtered_for_neighbours_requeue(Tail(order), q, vis, path,
                                                  current_actor)

RECURSIVE filtered_for_neighbours(_, _, _, _, _)
\* the for loop of shortest_path_bfs_filtered, the neighbours taken in the
\* order given; filter_by_key is handed upper where it takes lower, and lower
\* where it takes upper
filtered_for_neighbours(order, q, vis, path, current_actor) ==
    IF order = <<>>
    THEN [queue |-> q, visited |-> vis, raised |-> "none"]
    ELSE LET neighbour == Head(order)
             checked == filter_by_key(current_actor, neighbour, call.key,
                                      call.upper, call.lower)
         IN  IF neighbour \in vis
             THEN filtered_for_neighbours(Tail(order), q, vis, path,
                                          current_actor)
             ELSE IF checked.raised # "none"
             THEN [queue |-> q, visited |-> vis, raised |-> checked.raised]
             ELSE IF checked.is_valid
             THEN filtered_for_neighbours(Tail(order),
                      Append(q, [item |-> neighbour,
                                 path |-> Append(path, neighbour)]),
                      vis \cup {neighbour}, path, current_actor)
             ELSE filtered_for_neighbours(Tail(order), q, vis, path,
                                          current_actor)

\* one turn of the while loop of shortest_path_bfs_filtered, or its exit
shortest_path_bfs_filtered_loop ==
    /\ pc = "filtered"
    /\ IF queue = <<>>
       THEN /\ ret' = <<>>
            /\ pc' = returned_to("bacon_path_39")
            /\ UNCHANGED <<queue, visited, err>>
       ELSE LET current_actor == Head(queue).item
                path == Head(queue).path
            IN  IF current_actor = call.target
                THEN /\ ret' = path
                     /\ pc' = returned_to("bacon_path_39")
                     /\ queue' = Tail(queue)
                     /\ UNCHANGED <<visited, err>>
                ELSE \E order \in Orderings(vertices[current_actor].neighbours) :
                        LET after == filtered_for_neighbours(order, Tail(queue),
                                         visited, path, current_actor)
                        IN  IF after.raised # "none"
                            THEN /\ err' = after.raised
                                 /\ pc' = "done"
                                 /\ UNCHANGED <<queue, visited, ret>>
                            ELSE /\ queue' = after.queue
                                 /\ visited' = after.visited
                                 /\ UNCHANGED <<ret, pc, err>>
    /\ UNCHANGED <<vertices, call, distances, dataVars>>

(***************************************************************************)
(* bacon_path (src/main.py), called with the movies dictionary.            *)
(***************************************************************************)
bacon_path(actor1, actor2, key, lower, upper) ==
    /\ pc = "idle"
    /\ call' = [op |-> "bacon_path", start |-> actor1, target |-> actor2,
                key |-> key, lower |-> lower, upper |-> upper]
    /\ LET actors == get_all_vertices("actor")
       IN  IF actor1 \notin actors \/ actor2 \notin actors
           THEN /\ err' = "ValueError"
                /\ pc' = "done"
                /\ UNCHANGED <<queue, visited>>
           ELSE /\ queue' = path_queue(actor1)
                /\ visited' = {actor1}
                /\ err' = "none"
                /\ pc' = "path"
    /\ UNCHANGED <<vertices, distances, ret, dataVars>>

\* if key in {'rating', 'release date'}: path = shortest_path_bfs_filtered(...)
bacon_path_filter ==
    /\ pc = "bacon_path_33"
    /\ IF call.key \in {"rating", "release date"}
       THEN /\ queue' = path_queue(call.start)
            /\ visited' = {call.start}
            /\ pc' = "filtered"
       ELSE /\ pc' = "bacon_path_39"
            /\ UNCHANGED <<queue, visited>>
    /\ UNCHANGED <<vertices, call, distances, ret, err, dataVars>>

RECURSIVE path_with_movies(_, _)
\* for i in range(len(path) - 1): the actor, then the movies shared with the next
path_with_movies(path, i) ==
    IF i > Len(path) - 1
    THEN <<>>
    ELSE <<path[i], get_common_movies(path[i], path[i + 1])>>
            \o path_with_movies(path, i + 1)

bacon_path_return ==
    /\ pc = "bacon_path_39"
    /\ ret' = IF ret = <<>>
              THEN <<<<>>, <<>>>>
              ELSE <<ret, Append(path_with_movies(ret, 1), ret[Len(ret)])>>
    /\ pc' = IF call.op = "bacon_number" THEN "bacon_number_101" ELSE "done"
    /\ UNCHANGED <<vertices, call, bfsVars, err, dataVars>>

\* bacon_number (src/main.py) without a filter: the check of the two actors,
\* then the call of bacon_path, which checks them again and starts its search
bacon_number(actor1, actor2) ==
    /\ pc = "idle"
    /\ call' = [op |-> "bacon_number", start |-> actor1, target |-> actor2,
                key |-> "", lower |-> 0, upper |-> 0]
    /\ LET actors == get_all_vertices("actor")
       IN  IF actor1 \notin actors \/ actor2 \notin actors
           THEN /\ err' = "ValueError"
                /\ pc' = "done"
                /\ UNCHANGED <<queue, visited>>
           ELSE /\ queue' = path_queue(actor1)
                /\ visited' = {actor1}
                /\ err' = "none"
                /\ pc' = "path"
    /\ UNCHANGED <<vertices, distances, ret, dataVars>>

\* return len(path): the number of actors on the path (mutant)
bacon_number_return_length ==
    /\ pc = "bacon_number_101"
    /\ ret' = Len(ret[1])
    /\ pc' = "done"
    /\ UNCHANGED <<vertices, call, bfsVars, err, dataVars>>

\* path, _ = bacon_path(...); return len(path) - 1
bacon_number_return ==
    /\ pc = "bacon_number_101"
    /\ ret' = Len(ret[1]) - 1
    /\ pc' = "done"
    /\ UNCHANGED <<vertices, call, bfsVars, err, dataVars>>

(***************************************************************************)
(* create_actor_graph (src/graph_create.py): the actor graph of a movies   *)
(* dictionary.                                                             *)
(***************************************************************************)
RECURSIVE SeqOf(_)
\* the elements of a set, one after the other
SeqOf(S) ==
    IF S = {}
    THEN <<>>
    ELSE LET x == CHOOSE y \in S : TRUE
         IN  <<x>> \o SeqOf(S \ {x})

\* create_actor_graph without its inner loop: no edge is added
actor_graph_edges_none(g, actor, others) ==
    g

RECURSIVE actor_graph_edges(_, _, _)
\* for actor2 in movies[movie][0]: add the edge when actor2 is in the graph
actor_graph_edges(g, actor, others) ==
    IF others = <<>>
    THEN g
    ELSE LET actor2 == Head(others)
         IN  IF actor2 \in DOMAIN g /\ actor # actor2
             THEN actor_graph_edges(put_edge(g, actor, actor2), actor, Tail(others))
             ELSE actor_graph_edges(g, actor, Tail(others))

RECURSIVE actor_graph_cast(_, _, _, _)
\* for actor in movies[movie][0]; cast is the cast in the order the set is
\* iterated, todo the part of it the loop has still to take
actor_graph_cast(g, movie, cast, todo) ==
    IF todo = <<>>
    THEN g
    ELSE LET actor == Head(todo)
             g1 == put_appearence(put_vertex(g, actor, "actor"), actor, movie)
         IN  actor_graph_cast(actor_graph_edges(g1, actor, cast),
                              movie, cast, Tail(todo))

RECURSIVE actor_graph_movies(_, _)
\* for movie in movies
actor_graph_movies(g, rest) ==
    IF rest = <<>>
    THEN g
    ELSE actor_graph_movies(
             actor_graph_cast(g, Head(rest).name, SeqOf(Head(rest).cast),
                              SeqOf(Head(rest).cast)),
             Tail(rest))

create_actor_graph(dict) == actor_graph_movies(EmptyGraph, dict)

(***************************************************************************)
(* Path queries on the actor graph of a dataset.  The loader gives every   *)
(* movie at least one cast member.                                         *)
(***************************************************************************)
Datasets ==
    {dict \in [1..NumMovies ->
                [name : Movies, cast : (SUBSET Actors) \ {{}},
                 info : Attrs \X {0} \X Attrs]] :
        \A i \in 1..NumMovies : dict[i].name = MovieNames[i]}

FilterKeys == {"year", "rating", "release date"}

InitFiltered ==
    /\ movies \in Datasets
    /\ vertices = create_actor_graph(movies)
    /\ prev = NoCall
    /\ pc = "idle"
    /\ call = NoCall
    /\ queue = <<>>
    /\ visited = {}
    /\ distances = <<>>
    /\ ret = <<>>
    /\ err = "none"

NextFiltered ==
    \/ \E s \in Actors, t \in Actors : shortest_path_bfs(s, t)
    \/ shortest_path_bfs_loop
    \/ \E s \in Actors, t \in Actors, key \in FilterKeys,
          lower \in Attrs, upper \in Attrs :
            shortest_path_bfs_filtered(s, t, key, lower, upper)
    \/ shortest_path_bfs_filtered_loop
    \/ \E a1 \in Actors, a2 \in Actors, lower \in Attrs, upper \in Attrs :
            bacon_path(a1, a2, "release date", lower, upper)
    \/ \E a1 \in Actors, a2 \in Actors, lower \in Attrs, upper \in Attrs :
            bacon_path(a1, a2, "rating", lower, upper)
    \/ \E a1 \in Actors, a2 \in Actors : bacon_path(a1, a2, "", 0, 0)
    \/ bacon_path_filter
    \/ bacon_path_return

SpecFiltered == InitFiltered /\ [][NextFiltered]_vars

(***************************************************************************)
(* What the filter asks for, defined without any search: a hop is an edge  *)
(* whose two ends share a movie with the attribute in [lower, upper].      *)
(***************************************************************************)
AttrOf(movie, key) ==
    IF key = "rating" THEN movie_rating(movie) ELSE movie_year(movie)

HopInRange(u, v, key, lower, upper) ==
    /\ v \in vertices[u].neighbours
    /\ \E movie \in get_common_movies(u, v) :
            lower <= AttrOf(movie, key) /\ AttrOf(movie, key) <= upper

RECURSIVE FilteredBall(_, _, _, _, _)
FilteredBall(s, n, key, lower, upper) ==
    IF n = 0
    THEN {s}
    ELSE LET inner == FilteredBall(s, n - 1, key, lower, upper)
         IN  inner \cup {k \in DOMAIN vertices :
                            \E j \in inner : HopInRange(j, k, key, lower, upper)}

FilteredReachable(s, t, key, lower, upper) ==
    t \in FilteredBall(s, Cardinality(DOMAIN vertices), key, lower, upper)

FilteredDistance(s, t, key, lower, upper) ==
    CHOOSE n \in 0..Cardinality(DOMAIN vertices) :
        /\ t \in FilteredBall(s, n, key, lower, upper)
        /\ \A m \in 0..(n - 1) : t \notin FilteredBall(s, m, key, lower, upper)

\* a shortest walk from s to t all of whose hops are in range, or [] if none
IsFilteredAnswer(path, s, t, key, lower, upper) ==
    IF FilteredReachable(s, t, key, lower, upper)
    THEN /\ Len(path) >= 1
         /\ path[1] = s
         /\ path[Len(path)] = t
         /\ \A i \in 1..(Len(path) - 1) :
                HopInRange(path[i], path[i + 1], key, lower, upper)
         /\ Len(path) - 1 = FilteredDistance(s, t, key, lower, upper)
    ELSE path = <<>>

\* C5 (as claimed): for every lower and upper and either recognized key, each
\* consecutive pair of a path shortest_path_bfs_filtered returns shares a
\* movie whose attribute x satisfies lower <= x <= upper.
C5_FilteredSound ==
    (/\ pc = "done"
     /\ call.op = "shortest_path_bfs_filtered"
     /\ call.key \in {"year", "rating"}
     /\ err = "none") =>
        \A i \in 1..(Len(ret) - 1) :
            HopInRange(ret[i], ret[i + 1], call.key, call.lower, call.upper)

\* C6 (as claimed): when lower <= upper and some walk from start to target
\* has every hop in range, shortest_path_bfs_filtered returns a path from
\* start to target as short as the shortest such walk.
C6_FilteredComplete ==
    (/\ pc = "done"
     /\ call.op = "shortest_path_bfs_filtered"
     /\ call.key \in {"year", "rating"}
     /\ call.lower <= call.upper
     /\ InGraph(call.start) /\ InGraph(call.target)
     /\ FilteredReachable(call.start, call.target, call.key,
                          call.lower, call.upper)) =>
        /\ err = "none"
        /\ Len(ret) >= 1
        /\ ret[1] = call.start
        /\ ret[Len(ret)] = call.target
        /\ Len(ret) - 1 = FilteredDistance(call.start, call.target, call.key,
                                           call.lower, call.upper)

\* C7 (as claimed): bacon_path with key 'release date', both actors in the
\* graph, returns without raising the shortest path whose hops each share a
\* movie released in [lower, upper].
C7_ReleaseDateAccepted ==
    (/\ pc = "done"
     /\ call.op = "bacon_path"
     /\ call.key = "release date"
     /\ call.start \in get_all_vertices("actor")
     /\ call.target \in get_all_vertices("actor")) =>
        /\ err = "none"
        /\ IsFilteredAnswer(ret[1], call.start, call.target, "release date",
                            call.lower, call.upper)

\* C8 (as claimed): filtering never shortens a path.  When a filtered search
\* returns a path, the search it narrowed (the same key on a range that
\* holds its range, or the unfiltered search) between the same two keys
\* returned a path too, and one no longer.
C8_FilterNeverShortens ==
    (/\ pc = "done"
     /\ call.op = "shortest_path_bfs_filtered"
     /\ err = "none"
     /\ prev # NoCall
     /\ call.lower <= call.upper
     /\ ret # <<>>) =>
        /\ prev.ret # <<>>
        /\ Len(prev.ret) <= Len(ret)

(***************************************************************************)
(* Similarity and recommendations.  A score is the pair of the two lengths *)
(* the source divides, [num / den]; 0 is [0 / 1].                          *)
(***************************************************************************)
Zero == [num |-> 0, den |-> 1]

\* a.num / a.den > b.num / b.den
greater(a, b) == a.num * b.den > b.num * a.den

\* self.cast_members == 0: a set compared with the integer 0, never equal
set_equals_zero(S) == FALSE

\* _Vertex.similarity_score (src/graph_entities.py)
similarity_score(self_cast, other_cast) ==
    IF set_equals_zero(self_cast) \/ set_equals_zero(other_cast)
    THEN [raised |-> "none", value |-> Zero]
    ELSE LET sim_intersection == self_cast \cap other_cast
             sim_union == self_cast \cup other_cast
         IN  IF Cardinality(sim_union) = 0
             THEN [raised |-> "ZeroDivisionError", value |-> Zero]
             ELSE [raised |-> "none",
                   value |-> [num |-> Cardinality(sim_intersection),
                              den |-> Cardinality(sim_union)]]

\* Graph.get_similarity_score: the score, or the exception
graph_similarity(item1, item2) ==
    IF InGraph(item1) /\ InGraph(item2)
    THEN similarity_score(vertices[item1].cast_members,
                          vertices[item2].cast_members)
    ELSE [raised |-> "ValueError", value |-> Zero]

get_similarity_score(item1, item2) ==
    /\ pc = "idle"
    /\ call' = [op |-> "get_similarity_score", movie1 |-> item1, movie2 |-> item2]
    /\ err' = graph_similarity(item1, item2).raised
    /\ ret' = IF graph_similarity(item1, item2).raised = "none"
              THEN graph_similarity(item1, item2).value
              ELSE ret
    /\ pc' = "done"
    /\ UNCHANGED <<vertices, bfsVars, dataVars>>

\* movies[movie][0]
movie_cast(movie) == movie_entry(movie).cast

\* get_similarity_score_dict (src/calculations.py): the score, or the exception
dict_similarity(movie1, movie2) ==
    IF movie1 \notin movie_names \/ movie2 \notin movie_names
    THEN [raised |-> "ValueError", value |-> Zero]
    ELSE IF movie_cast(movie1) = {} \/ movie_cast(movie2) = {}
    THEN [raised |-> "none", value |-> Zero]
    ELSE [raised |-> "none",
          value |-> [num |-> Cardinality(movie_cast(movie1) \cap movie_cast(movie2)),
                     den |-> Cardinality(movie_cast(movie1) \cup movie_cast(movie2))]]

get_similarity_score_dict(movie1, movie2) ==
    /\ pc = "idle"
    /\ call' = [op |-> "get_similarity_score_dict",
                movie1 |-> movie1, movie2 |-> movie2]
    /\ err' = dict_similarity(movie1, movie2).raised
    /\ ret' = IF dict_similarity(movie1, movie2).raised = "none"
              THEN dict_similarity(movie1, movie2).value
              ELSE ret
    /\ pc' = "done"
    /\ UNCHANGED <<vertices, bfsVars, dataVars>>

\* seq[:limit]
slice_to(seq, limit) ==
    IF limit >= 0
    THEN SubSeq(seq, 1, IF limit < Len(seq) THEN limit ELSE Len(seq))
    ELSE SubSeq(seq, 1, Len(seq) + limit)

RECURSIVE insert_sorted(_, _, _)
\* x put behind every name of sorted_names whose score is not below its own
insert_sorted(sorted_names, x, score) ==
    IF sorted_names = <<>>
    THEN <<x>>
    ELSE IF greater(score[x], score[Head(sorted_names)])
    THEN <<x>> \o sorted_names
    ELSE <<Head(sorted_names)>> \o insert_sorted(Tail(sorted_names), x, score)

RECURSIVE sorted_reverse(_, _)
\* sorted(recommendations, key=recommendations.get, reverse=True): by
\* descending score, names of equal score in the order of names
sorted_reverse(names, score) ==
    IF names = <<>>
    THEN <<>>
    ELSE insert_sorted(sorted_reverse(SubSeq(names, 1, Len(names) - 1), score),
                       names[Len(names)], score)

\* a filter that lets every movie through, whatever the range (mutant)
similarity_filter_any(movie, key, lower, upper) == TRUE

\* similarity_filter for a movie of the dictionary and a recognized key
similarity_filter(movie, key, lower, upper) ==
    IF key = "rating"
    THEN lower <= movie_rating(movie) /\ movie_rating(movie) <= upper
    ELSE lower <= movie_year(movie) /\ movie_year(movie) <= upper

\* movie != input_movie and sim_score >= 0: a movie without a common cast
\* member recommended too (mutant)
is_recommended_any_score(movie, input_movie, sim_score) ==
    movie # input_movie /\ sim_score.num >= 0

\* movie != input_movie and sim_score > 0
is_recommended(movie, input_movie, sim_score) ==
    movie # input_movie /\ sim_score.num > 0

RECURSIVE select_seq(_, _, _, _, _)
\* the for loop of get_recommendations: the names recommendations holds, in
\* the order they were put in
select_seq(rest, input_movie, key, lower, upper) ==
    IF rest = <<>>
    THEN <<>>
    ELSE LET movie == Head(rest).name
             sim_score == dict_similarity(input_movie, movie).value
             kept == /\ is_recommended(movie, input_movie, sim_score)
                     /\ key # "" => similarity_filter(movie, key, lower, upper)
         IN  (IF kept THEN <<movie>> ELSE <<>>)
                \o select_seq(Tail(rest), input_movie, key, lower, upper)

\* get_recommendations (src/calculations.py): what it returns, or the exception
recommendations_of(input_movie, limit, key, lower, upper) ==
    IF input_movie \notin movie_names
    THEN [raised |-> "ValueError", value |-> <<>>]
    ELSE IF key \notin {"", "rating", "release date"}
    THEN [raised |-> "ValueError", value |-> <<>>]
    ELSE LET names == select_seq(movies, input_movie, key, lower, upper)
             score == [m \in movie_names |-> dict_similarity(input_movie, m).value]
             recommendations == [i \in 1..Len(names) |-> <<names[i], score[names[i]]>>]
             sorted_recommendations == sorted_reverse(names, score)
             top == slice_to(sorted_recommendations, limit)
             final_recommendations ==
                 [i \in 1..Len(top) |->
                    <<top[i], IF key = "rating" THEN movie_rating(top[i])
                                                ELSE movie_year(top[i])>>]
         IN  [raised |-> "none",
              value |-> IF key = ""
                        THEN <<top, recommendations>>
                        ELSE <<final_recommendations, recommendations>>]

get_recommendations(input_movie, limit, key, lower, upper) ==
    /\ pc = "idle"
    /\ call' = [op |-> "get_recommendations", movie |-> input_movie,
                limit |-> limit, key |-> key, lower |-> lower, upper |-> upper]
    /\ LET result == recommendations_of(input_movie, limit, key, lower, upper)
       IN  /\ err' = result.raised
           /\ ret' = IF result.raised = "none" THEN result.value ELSE ret
    /\ pc' = "done"
    /\ UNCHANGED <<vertices, bfsVars, dataVars>>

RECURSIVE graph_select(_, _)
\* the for loop of Graph.recommend_movies over the movie keys in the order
\* given: the names recommendations holds, or the exception of a score
graph_select(order, movie) ==
    IF order = <<>>
    THEN [raised |-> "none", names |-> <<>>]
    ELSE LET other_movie == Head(order)
             sim == graph_similarity(movie, other_movie)
             later == graph_select(Tail(order), movie)
         IN  IF other_movie = movie
             THEN later
             ELSE IF sim.raised # "none"
             THEN [raised |-> sim.raised, names |-> <<>>]
             ELSE IF later.raised # "none"
             THEN later
             ELSE IF sim.value.num > 0
             THEN [raised |-> "none", names |-> <<other_movie>> \o later.names]
             ELSE later

\* Graph.recommend_movies (src/graph_entities.py); get_all_vertices('movie')
\* is a set, iterated in an order the program does not control
recommend_movies(movie, limit) ==
    /\ pc = "idle"
    /\ call' = [op |-> "recommend_movies", movie |-> movie, limit |-> limit]
    /\ pc' = "done"
    /\ IF ~InGraph(movie) \/ vertices[movie].kind # "movie"
       THEN /\ err' = "ValueError"
            /\ UNCHANGED ret
       ELSE \E order \in Orderings(get_all_vertices("movie")) :
                LET selected == graph_select(order, movie)
                    score == [m \in DOMAIN vertices |->
                                 graph_similarity(movie, m).value]
                    sorted_recommendations == sorted_reverse(selected.names, score)
                IN  IF selected.raised # "none"
                    THEN /\ err' = selected.raised
                         /\ UNCHANGED ret
                    ELSE /\ err' = "none"
                         /\ ret' = IF limit # 0
                                   THEN slice_to(sorted_recommendations, limit)
                                   ELSE sorted_recommendations
    /\ UNCHANGED <<vertices, bfsVars, dataVars>>

(***************************************************************************)
(* Similarity queries on a movies dictionary and on the graph that holds   *)
(* the same movies as vertices (add_vertex, then add_movie_info).  A movie *)
(* may have no cast member.                                                *)
(***************************************************************************)
RECURSIVE movie_graph(_, _)
movie_graph(g, rest) ==
    IF rest = <<>>
    THEN g
    ELSE movie_graph(
             put_movie_info(put_vertex(g, Head(rest).name, "movie"),
                            Head(rest).name, Head(rest).cast, Head(rest).info),
             Tail(rest))

SimDatasets ==
    {dict \in [1..NumSimMovies ->
                [name : SimMovies, cast : SUBSET Cast, info : {<<1, 0, 1>>}]] :
        \A i \in 1..NumSimMovies : dict[i].name = MovieNames[i]}

Limits == (0 - 1)..MaxLimit

InitSim ==
    /\ movies \in SimDatasets
    /\ vertices = movie_graph(EmptyGraph, movies)
    /\ prev = NoCall
    /\ pc = "idle"
    /\ call = NoCall
    /\ queue = <<>>
    /\ visited = {}
    /\ distances = <<>>
    /\ ret = <<>>
    /\ err = "none"

NextSim ==
    \/ \E m1 \in SimMovies \cup {Absent}, m2 \in SimMovies \cup {Absent} :
            get_similarity_score(m1, m2)
    \/ \E m1 \in SimMovies \cup {Absent}, m2 \in SimMovies \cup {Absent} :
            get_similarity_score_dict(m1, m2)
    \/ \E m \in SimMovies \cup {Absent}, limit \in Limits :
            get_recommendations(m, limit, "", 0, 0)
    \/ \E m \in SimMovies \cup {Absent}, limit \in Limits :
            recommend_movies(m, limit)

SpecSim == InitSim /\ [][NextSim]_vars

\* C9 (as claimed): the similarity of two present movies is
\* |cast1 /\ cast2| / |cast1 \/ cast2|, and it is 0, never a division by
\* zero, when either cast is empty, both empty included.
C9_Jaccard ==
    (/\ pc = "done"
     /\ call.op \in {"get_similarity_score", "get_similarity_score_dict"}
     /\ call.movie1 \in movie_names
     /\ call.movie2 \in movie_names) =>
        LET cast1 == movie_cast(call.movie1)
            cast2 == movie_cast(call.movie2)
        IN  /\ err = "none"
            /\ (cast1 = {} \/ cast2 = {}) => ret.num = 0
            /\ (cast1 # {} /\ cast2 # {}) =>
                    ret.num * Cardinality(cast1 \cup cast2)
                        = Cardinality(cast1 \cap cast2) * ret.den

\* the list of names a recommendation call returned
RecommendedNames ==
    IF call.op = "get_recommendations" THEN ret[1] ELSE ret

\* C10: a recommendation call with limit >= 1 returns at most limit movies,
\* each of them other than the target and sharing a cast member with it.
C10_RecommendationsRelated ==
    (/\ pc = "done"
     /\ call.op \in {"get_recommendations", "recommend_movies"}
     /\ err = "none"
     /\ call.limit >= 1) =>
        /\ Len(RecommendedNames) <= call.limit
        /\ \A i \in 1..Len(RecommendedNames) :
                /\ RecommendedNames[i] # call.movie
                /\ RecommendedNames[i] \in movie_names
                /\ movie_cast(RecommendedNames[i]) \cap movie_cast(call.movie) # {}

\* C10 witness: get_recommendations returned limit movies, and left out a
\* movie with a cast that shares nobody with the target.
C10_Witness ==
    /\ pc = "done"
    /\ call.op = "get_recommendations"
    /\ err = "none"
    /\ call.limit >= 1
    /\ Len(ret[1]) = call.limit
    /\ \E m \in movie_names \ {call.movie} :
            /\ movie_cast(m) # {}
            /\ movie_cast(m) \cap movie_cast(call.movie) = {}

(***************************************************************************)
(* Claims about the ranking.                                               *)
(***************************************************************************)
\* the place of a movie in the movies dictionary (its insertion order)
PlaceOf(m) == CHOOSE i \in 1..Len(movies) : movies[i].name = m

\* |cast1 /\ cast2| / |cast1 \/ cast2| for two movies of the dictionary
Jaccard(m1, m2) ==
    [num |-> Cardinality(movie_cast(m1) \cap movie_cast(m2)),
     den |-> Cardinality(movie_cast(m1) \cup movie_cast(m2))]

\* the movies other than the target that share a cast member with it
Candidates(target) ==
    {m \in movie_names \ {target} : movie_cast(m) \cap movie_cast(target) # {}}

\* a is ranked before b for the target: a higher similarity, or the same
\* similarity and an earlier place in the input
RankedBefore(a, b, target) ==
    \/ greater(Jaccard(target, a), Jaccard(target, b))
    \/ /\ ~greater(Jaccard(target, b), Jaccard(target, a))
       /\ PlaceOf(a) < PlaceOf(b)

\* C11 (as claimed): a recommendation call with limit >= 1 returns the first
\* limit candidates of the ranking by non-increasing similarity in which
\* candidates of equal similarity keep their insertion order: the result is
\* ranked that way, and every candidate left out is ranked behind every
\* one returned.
C11_TopPrefixStable ==
    (/\ pc = "done"
     /\ call.op \in {"get_recommendations", "recommend_movies"}
     /\ err = "none"
     /\ call.limit >= 1) =>
        LET names == RecommendedNames
            returned == {names[i] : i \in 1..Len(names)}
            cands == Candidates(call.movie)
        IN  /\ returned \subseteq cands
            /\ Len(names) = IF call.limit < Cardinality(cands)
                            THEN call.limit ELSE Cardinality(cands)
            /\ \A i \in 1..Len(names), j \in 1..Len(names) :
                    i < j => RankedBefore(names[i], names[j], call.movie)
            /\ \A m \in cands \ returned : \A i \in 1..Len(names) :
                    RankedBefore(names[i], m, call.movie)

(***************************************************************************)
(* Claims about the similarity of a pair of movies.                        *)
(***************************************************************************)
\* what the call just answered answers with its two movies exchanged
SwappedSimilarity ==
    IF call.op = "get_similarity_score"
    THEN graph_similarity(call.movie2, call.movie1)
    ELSE dict_similarity(call.movie2, call.movie1)

\* two scores are the same number
SameScore(a, b) == a.num * b.den = b.num * a.den

\* C19 (as claimed): for every two present movies the similarity is
\* returned, it is the similarity the same function returns for the two
\* movies exchanged, and the similarity of a movie with a non-empty cast to
\* itself is 1.
C19_SymmetricReflexive ==
    (/\ pc = "done"
     /\ call.op \in {"get_similarity_score", "get_similarity_score_dict"}
     /\ call.movie1 \in movie_names
     /\ call.movie2 \in movie_names) =>
        /\ err = "none"
        /\ SwappedSimilarity.raised = "none"
        /\ SameScore(ret, SwappedSimilarity.value)
        /\ (call.movie1 = call.movie2 /\ movie_cast(call.movie1) # {}) =>
                ret.num = ret.den

\* C21 (as claimed): a recommendations call whose limit is zero or negative,
\* for a movie that is present, ends with an exception and returns no list.
C21_NonPositiveLimitRejected ==
    (/\ pc = "done"
     /\ call.op \in {"get_recommendations", "recommend_movies"}
     /\ call.movie \in movie_names
     /\ call.limit <= 0) =>
        err # "none"

(***************************************************************************)
(* Recommendations with an attribute filter, on a movies dictionary whose  *)
(* release years and ratings vary.  The calls of get_recommendations: a    *)
(* recognized key with a range (lower above upper included), a movie that  *)
(* is not in the dictionary, and a key the function does not know.         *)
(***************************************************************************)
\* the casts of the filtered datasets: every two movies share a cast member
RecCasts == {{CastNames[1]}, {CastNames[1], CastNames[2]}}

RecMovies == {MovieNames[i] : i \in 1..NumRecMovies}

RecDatasets ==
    {dict \in [1..NumRecMovies ->
                [name : RecMovies, cast : RecCasts, info : Attrs \X {0} \X Attrs]] :
        \A i \in 1..NumRecMovies : dict[i].name = MovieNames[i]}

RecLimits == {1, NumRecMovies}

\* 'year' is the name filter_by_key gives the release year;
\* get_recommendations does not know it
RecKeys == {"rating", "release date"}

InitRec ==
    /\ movies \in RecDatasets
    /\ vertices = EmptyGraph
    /\ prev = NoCall
    /\ pc = "idle"
    /\ call = NoCall
    /\ queue = <<>>
    /\ visited = {}
    /\ distances = <<>>
    /\ ret = <<>>
    /\ err = "none"

\* the ranges asked for: every range with lower <= upper, and the widest
\* range with its ends the wrong way round
RecRanges ==
    {r \in Attrs \X Attrs : r[1] <= r[2] \/ r = <<MaxAttr, 1>>}

NextRec ==
    \/ \E m \in RecMovies, limit \in RecLimits, key \in RecKeys, r \in RecRanges :
            get_recommendations(m, limit, key, r[1], r[2])
    \/ \E key \in RecKeys \cup {""} :
            get_recommendations(Absent, 1, key, 1, MaxAttr)
    \/ \E m \in RecMovies \cup {Absent} :
            get_recommendations(m, 1, "year", 1, MaxAttr)

SpecRec == InitRec /\ [][NextRec]_vars

\* the attribute of a movie a recognized key names
RecAttr(m, key) ==
    IF key = "rating" THEN movie_entry(m).info[3] ELSE movie_entry(m).info[1]

\* the candidates of the target whose attribute lies in [lower, upper]
CandidatesInRange(target, key, lower, upper) ==
    {m \in Candidates(target) : lower <= RecAttr(m, key) /\ RecAttr(m, key) <= upper}

\* C12: get_recommendations with key 'rating' or 'release date' on a movie
\* of the dictionary returns without raising; every movie it returns (in the
\* truncated result and in the score dictionary) has its rating or release
\* year in [lower, upper], with the attribute reported next to it; and when
\* no candidate is in the range both results are empty.
C12_FilterInRange ==
    (/\ pc = "done"
     /\ call.op = "get_recommendations"
     /\ call.key \in RecKeys
     /\ call.movie \in movie_names) =>
        LET inRange == CandidatesInRange(call.movie, call.key, call.lower, call.upper)
        IN  /\ err = "none"
            /\ \A i \in 1..Len(ret[1]) :
                    /\ ret[1][i][1] \in inRange
                    /\ ret[1][i][2] = RecAttr(ret[1][i][1], call.key)
            /\ {ret[2][i][1] : i \in 1..Len(ret[2])} = inRange
            /\ inRange = {} => ret[1] = <<>> /\ ret[2] = <<>>

\* C12 witness: the range excluded every candidate, and the call returned
\* empty results although the target has a candidate.
C12_Witness ==
    /\ pc = "done"
    /\ call.op = "get_recommendations"
    /\ call.key \in RecKeys
    /\ err = "none"
    /\ call.lower <= call.upper
    /\ Candidates(call.movie) # {}
    /\ CandidatesInRange(call.movie, call.key, call.lower, call.upper) = {}
    /\ ret[1] = <<>>

\* C20 (as claimed): get_recommendations on a movie that is not in the
\* dictionary signals NotFound (ValueError), and on a movie of the
\* dictionary with a key that is neither '' nor a recognized key it signals
\* InvalidKey (KeyError, the exception similarity_filter and filter_by_key
\* raise for an unknown key), an error kind other than NotFound.
C20_InvalidKeyDistinct ==
    (pc = "done" /\ call.op = "get_recommendations") =>
        /\ call.movie \notin movie_names => err = "ValueError"
        /\ (call.movie \in movie_names /\ call.key \notin RecKeys \cup {""}) =>
                err = "KeyError"

(***************************************************************************)
(* Queries on a built graph.  The graph is any graph add_vertex and        *)
(* add_edge can build on the keys (self-edges included); a query names any *)
(* key, one that is not in the graph included.                             *)
(***************************************************************************)
EdgeSets == SUBSET {{a, b} : a \in Keys, b \in Keys}

BuiltGraph(edges) ==
    [k \in Keys |->
        [Vertex(k, "actor") EXCEPT !.neighbours = {j \in Keys : {k, j} \in edges}]]

InitPath ==
    /\ \E edges \in EdgeSets : vertices = BuiltGraph(edges)
    /\ pc = "idle"
    /\ call = NoCall
    /\ movies = <<>>
    /\ prev = NoCall
    /\ queue = <<>>
    /\ visited = {}
    /\ distances = <<>>
    /\ ret = <<>>
    /\ err = "none"

NextPath ==
    \/ \E s \in Keys \cup {Absent}, t \in Keys \cup {Absent} : shortest_path_bfs(s, t)
    \/ shortest_path_bfs_loop
    \/ \E s \in Keys \cup {Absent} : shortest_distance_bfs(s)
    \/ shortest_distance_bfs_loop
    \/ \E s \in Keys \cup {Absent} : average_bacon_number(s)
    \/ average_bacon_number_return
    \/ \E s \in Keys \cup {Absent}, t \in Keys \cup {Absent} :
            bacon_path(s, t, "", 0, 0)
    \/ bacon_path_filter
    \/ bacon_path_return
    \/ \E s \in Keys \cup {Absent}, t \in Keys \cup {Absent} : bacon_number(s, t)
    \/ bacon_number_return

SpecPath == InitPath /\ [][NextPath]_vars

(***************************************************************************)
(* Hop distance, defined without any search order: Ball(s, n) is the set   *)
(* of keys some walk of at most n edges reaches from s.                    *)
(***************************************************************************)
RECURSIVE Ball(_, _)
Ball(s, n) ==
    IF n = 0
    THEN {s}
    ELSE LET inner == Ball(s, n - 1)
         IN  inner \cup {k \in DOMAIN vertices :
                            \E j \in inner : k \in vertices[j].neighbours}

Reachable(s, t) == t \in Ball(s, Cardinality(DOMAIN vertices))

HopDistance(s, t) ==
    CHOOSE n \in 0..Cardinality(DOMAIN vertices) :
        /\ t \in Ball(s, n)
        /\ \A m \in 0..(n - 1) : t \notin Ball(s, m)

IsWalk(path) ==
    \A i \in 1..(Len(path) - 1) : path[i + 1] \in vertices[path[i]].neighbours

\* C1: shortest_path_bfs on two present keys returns a minimum-hop path
\* (from start to target, consecutive keys adjacent, as few edges as any
\* walk) when the target is reachable, and [] exactly when it is not.
C1_ShortestPath ==
    (pc = "done" /\ call.op = "shortest_path_bfs" /\ err = "none") =>
        IF Reachable(call.start, call.target)
        THEN /\ Len(ret) >= 1
             /\ ret[1] = call.start
             /\ ret[Len(ret)] = call.target
             /\ IsWalk(ret)
             /\ Len(ret) - 1 = HopDistance(call.start, call.target)
        ELSE ret = <<>>

\* C1 witness: a returned path of two hops between keys that are not adjacent.
C1_Witness ==
    /\ pc = "done"
    /\ call.op = "shortest_path_bfs"
    /\ err = "none"
    /\ Len(ret) = 3
    /\ ~adjacent(call.start, call.target)

\* C1 witness of the other case: [] returned for an unreachable target.
C1_WitnessUnreachable ==
    /\ pc = "done"
    /\ call.op = "shortest_path_bfs"
    /\ err = "none"
    /\ ret = <<>>
    /\ ~Reachable(call.start, call.target)

\* C2: shortest_distance_bfs returns a map over every key of the graph: 0
\* for the start, the exact hop distance for a reachable key, infinity for
\* an unreachable one.
C2_DistanceMap ==
    (pc = "done" /\ call.op = "shortest_distance_bfs" /\ err = "none") =>
        /\ DOMAIN ret = DOMAIN vertices
        /\ ret[call.start] = 0
        /\ \A k \in DOMAIN vertices :
                IF Reachable(call.start, k)
                THEN ret[k] = HopDistance(call.start, k)
                ELSE ret[k] = Inf

\* C2 witness: a returned map with a key two hops away from the start.
C2_Witness ==
    /\ pc = "done"
    /\ call.op = "shortest_distance_bfs"
    /\ err = "none"
    /\ \E k \in DOMAIN ret : ret[k] = 2

\* the keys other than the start that the start reaches
OthersReached(start) ==
    {k \in DOMAIN vertices \ {start} : Reachable(start, k)}

RECURSIVE HopSum(_, _)
\* the hop distances from the start to the keys, added up
HopSum(start, keys) ==
    IF keys = {}
    THEN 0
    ELSE LET k == CHOOSE x \in keys : TRUE
         IN  HopDistance(start, k) + HopSum(start, keys \ {k})

\* C13 (as claimed): average_bacon_number of an actor that reaches no other
\* vertex (an actor without neighbours, say) is +infinity.
C13_AverageInfinite ==
    (/\ pc = "done"
     /\ call.op = "average_bacon_number"
     /\ err = "none"
     /\ OthersReached(call.start) = {}) =>
        ret = Infinite

\* C14 (as claimed): average_bacon_number of an actor that reaches other
\* actors is the sum of the hop distances to them divided by their number,
\* the actor itself not counted.
C14_AverageOverOthers ==
    (/\ pc = "done"
     /\ call.op = "average_bacon_number"
     /\ err = "none"
     /\ OthersReached(call.start) # {}) =>
        ret.num * Cardinality(OthersReached(call.start))
            = ret.den * HopSum(call.start, OthersReached(call.start))

\* C17: shortest_path_bfs and shortest_distance_bfs raise ValueError
\* (NotFound) when the start key, or the target key of a path search, is not
\* a vertex of the graph, and so do bacon_path and bacon_number; none of
\* them returns an empty path or a distance map for it.
C17_AbsentKeyNotFound ==
    (/\ pc = "done"
     /\ call.op \in {"shortest_path_bfs", "shortest_distance_bfs",
                     "bacon_path", "bacon_number"}
     /\ \/ ~InGraph(call.start)
        \/ call.op # "shortest_distance_bfs" /\ ~InGraph(call.target)) =>
        (err = "ValueError" /\ ret = <<>>)

\* C17 witness: a path search from a vertex of the graph to a key that is
\* not in it has raised.
C17_Witness ==
    /\ pc = "done"
    /\ call.op = "shortest_path_bfs"
    /\ InGraph(call.start)
    /\ ~InGraph(call.target)
    /\ err = "ValueError"

\* C18: bacon_number of two actors joined by a path is the number of edges
\* of a shortest path between them, 0 for an actor and itself; and
\* shortest_path_bfs from a vertex to itself returns the one-key path.
C18_BaconNumber ==
    /\ (/\ pc = "done"
        /\ call.op = "bacon_number"
        /\ err = "none"
        /\ Reachable(call.start, call.target)) =>
            /\ ret = HopDistance(call.start, call.target)
            /\ call.start = call.target => ret = 0
    /\ (/\ pc = "done"
        /\ call.op = "shortest_path_bfs"
        /\ err = "none"
        /\ call.start = call.target) =>
            ret = <<call.start>>

\* C18 witness: bacon_number has returned 2 for two actors that are not
\* adjacent.
C18_Witness ==
    /\ pc = "done"
    /\ call.op = "bacon_number"
    /\ err = "none"
    /\ ret = 2
    /\ ~adjacent(call.start, call.target)



\* the keys in a BFS deque, front first: the deque of shortest_path_bfs holds
\* (key, path) pairs, the deque of shortest_distance_bfs holds keys
QueuedKeys(q, loop) ==
    [i \in DOMAIN q |-> IF loop = "path" THEN q[i].item ELSE q[i]]

\* what one turn of an unfiltered BFS loop may do: take the front of the
\* deque and append keys that were not visited, each once, marking them
EnqueuesOnlyNew ==
    LET kept == Tail(QueuedKeys(queue, pc))
        new == QueuedKeys(queue', pc)
        added == {new[i] : i \in (Len(kept) + 1)..Len(new)}
    IN  /\ Len(new) >= Len(kept)
        /\ SubSeq(new, 1, Len(kept)) = kept
        /\ Cardinality(added) = Len(new) - Len(kept)
        /\ added \cap visited = {}
        /\ visited' = visited \cup added
        /\ Cardinality(visited') <= Cardinality(DOMAIN vertices)

\* C29: an unfiltered BFS starts with the start key enqueued and visited,
\* and every turn of its loop enqueues only keys that were not visited
\* before, each once and marked visited with it; so no key is enqueued
\* twice and the enqueues made, one per visited key, never exceed the
\* number of vertices.
C29_EnqueuedOnce ==
    [][/\ (pc = "idle" /\ pc' \in {"path", "distance"}) =>
            /\ QueuedKeys(queue', pc') = <<call'.start>>
            /\ visited' = {call'.start}
       /\ (pc \in {"path", "distance"} /\ queue # <<>>) => EnqueuesOnlyNew
       /\ (pc \in {"path", "distance"} /\ queue = <<>>) =>
            (queue' = queue /\ visited' = visited)]_vars

\* a search on a graph whose keys all lie on one cycle has visited every
\* key and still holds keys in its deque
C29_Witness ==
    /\ pc \in {"path", "distance"}
    /\ queue # <<>>
    /\ visited = DOMAIN vertices
    /\ Cardinality(visited) >= 3
    /\ \A k \in DOMAIN vertices : Cardinality(vertices[k].neighbours \ {k}) >= 2

(***************************************************************************)
(* The loader and the queries of Graph on the graph it builds.             *)
(* initialize_graphs builds the actor graph of a movies dictionary, one    *)
(* movie per step, the cast of a movie taken in any order; the movies may  *)
(* then be added as vertices with their cast (add_vertex, add_movie_info); *)
(* after that every query of Graph is called, with keys of either kind and *)
(* a key that is not in the graph.                                         *)
(***************************************************************************)
\* number of actor names and of movie names of a loaded dataset
NumQActors == 2

NumQMovies == 2

QActors == {ActorNames[i] : i \in 1..NumQActors}

QMovies == {MovieNames[i] : i \in 1..NumQMovies}

\* every movie has year 1 and rating 1; one range holds 1, the other does not
QDatasets ==
    {dict \in [1..NumQMovies ->
                [name : QMovies, cast : (SUBSET QActors) \ {{}},
                 info : {<<1, 0, 1>>}]] :
        \A i \in 1..NumQMovies : dict[i].name = MovieNames[i]}

QRanges == {<<1, 1>>, <<2, 2>>}

\* the keys filter_by_key knows, and one it does not know
QKeys == {"year", "rating", "genre"}

InitQuery ==
    /\ movies \in QDatasets
    /\ vertices = EmptyGraph
    /\ prev = NoCall
    /\ pc = "start"
    /\ call = NoCall
    /\ queue = <<>>
    /\ visited = {}
    /\ distances = <<>>
    /\ ret = <<>>
    /\ err = "none"

\* initialize_graphs, up to the first turn of the loop of create_actor_graph;
\* queue holds the movies the loop has still to take
initialize_graphs ==
    /\ pc = "start"
    /\ call' = [op |-> "initialize_graphs"]
    /\ vertices' = EmptyGraph
    /\ queue' = movies
    /\ pc' = "create_actor_graph"
    /\ UNCHANGED <<visited, distances, ret, err, dataVars>>

\* one turn of "for movie in movies" of create_actor_graph, or its return
create_actor_graph_loop ==
    /\ pc = "create_actor_graph"
    /\ IF queue = <<>>
       THEN /\ pc' = "idle"
            /\ UNCHANGED <<vertices, queue>>
       ELSE /\ \E order \in Orderings(Head(queue).cast) :
                    vertices' = actor_graph_cast(vertices, Head(queue).name,
                                                 order, order)
            /\ queue' = Tail(queue)
            /\ UNCHANGED pc
    /\ UNCHANGED <<call, visited, distances, ret, err, dataVars>>

\* add_vertex(movie, 'movie') and add_movie_info for every movie of the
\* dictionary, on the loaded actor graph
add_movies ==
    /\ pc = "idle"
    /\ call.op = "initialize_graphs"
    /\ call' = [op |-> "add_movie_info"]
    /\ vertices' = movie_graph(vertices, movies)
    /\ UNCHANGED <<pc, bfsVars, ret, err, dataVars>>

\* Graph.adjacent as a call
call_adjacent(item1, item2) ==
    /\ pc = "idle"
    /\ call' = [op |-> "adjacent", item1 |-> item1, item2 |-> item2]
    /\ ret' = adjacent(item1, item2)
    /\ err' = "none"
    /\ pc' = "done"
    /\ UNCHANGED <<vertices, bfsVars, dataVars>>

\* Graph.get_neighbours
get_neighbours(item) ==
    /\ pc = "idle"
    /\ call' = [op |-> "get_neighbours", item |-> item]
    /\ IF InGraph(item)
       THEN /\ ret' = {neighbour \in vertices[item].neighbours : TRUE}
            /\ err' = "none"
       ELSE /\ err' = "ValueError"
            /\ UNCHANGED ret
    /\ pc' = "done"
    /\ UNCHANGED <<vertices, bfsVars, dataVars>>

\* Graph.get_all_vertices as a call
call_get_all_vertices(kind) ==
    /\ pc = "idle"
    /\ call' = [op |-> "get_all_vertices", kind |-> kind]
    /\ ret' = get_all_vertices(kind)
    /\ err' = "none"
    /\ pc' = "done"
    /\ UNCHANGED <<vertices, bfsVars, dataVars>>

\* the two appearance sets with the movies of both kept in the first one
\* (intersection_update in the place of intersection)
common_movies_in_place(g, item1, item2) ==
    [g EXCEPT ![item1].appearences = @ \cap g[item2].appearences]

\* the graph after Graph.get_common_movies: intersection builds a new set
common_movies_graph(g, item1, item2) ==
    g

\* Graph.get_common_movies as a call
call_get_common_movies(item1, item2) ==
    /\ pc = "idle"
    /\ call' = [op |-> "get_common_movies", item1 |-> item1, item2 |-> item2]
    /\ IF InGraph(item1) /\ InGraph(item2)
       THEN /\ ret' = get_common_movies(item1, item2)
            /\ vertices' = common_movies_graph(vertices, item1, item2)
            /\ err' = "none"
       ELSE /\ err' = "ValueError"
            /\ UNCHANGED <<ret, vertices>>
    /\ pc' = "done"
    /\ UNCHANGED <<bfsVars, dataVars>>

\* Graph.filter_by_key as a call
call_filter_by_key(actor1, actor2, key, lower, upper) ==
    /\ pc = "idle"
    /\ call' = [op |-> "filter_by_key", actor1 |-> actor1, actor2 |-> actor2,
                key |-> key, lower |-> lower, upper |-> upper]
    /\ LET checked == filter_by_key(actor1, actor2, key, lower, upper)
       IN  /\ err' = checked.raised
           /\ ret' = IF checked.raised = "none"
                     THEN <<checked.is_valid, checked.found>>
                     ELSE ret
    /\ pc' = "done"
    /\ UNCHANGED <<vertices, bfsVars, dataVars>>

QItems == QActors \cup {MovieNames[1], Absent}

NextQuery ==
    \/ initialize_graphs
    \/ create_actor_graph_loop
    \/ add_movies
    \/ \E s \in QActors \cup {Absent}, t \in QActors \cup {Absent} :
            shortest_path_bfs(s, t)
    \/ shortest_path_bfs_loop
    \/ \E s \in QActors \cup {Absent}, t \in QActors \cup {Absent},
          key \in QKeys, r \in QRanges :
            shortest_path_bfs_filtered(s, t, key, r[1], r[2])
    \/ shortest_path_bfs_filtered_loop
    \/ \E s \in QItems : shortest_distance_bfs(s)
    \/ shortest_distance_bfs_loop
    \/ \E s \in QItems : average_bacon_number(s)
    \/ average_bacon_number_return
    \/ \E item1 \in QItems, item2 \in QItems : call_adjacent(item1, item2)
    \/ \E item \in QItems : get_neighbours(item)
    \/ \E kind \in Kinds \cup {""} : call_get_all_vertices(kind)
    \/ \E item1 \in QItems, item2 \in QItems : call_get_common_movies(item1, item2)
    \/ \E m1 \in QMovies \cup {ActorNames[1], Absent}, m2 \in QMovies :
            get_similarity_score(m1, m2)
    \/ \E m \in QMovies \cup {ActorNames[1], Absent} : recommend_movies(m, 1)
    \/ \E m \in QMovies \cup {Absent} : get_recommendations(m, 1, "", 0, 0)
    \/ \E actor1 \in QActors \cup {Absent}, actor2 \in QActors \cup {Absent},
          key \in QKeys, r \in QRanges :
            call_filter_by_key(actor1, actor2, key, r[1], r[2])

SpecQuery == InitQuery /\ [][NextQuery]_vars

QueryOps ==
    {"shortest_path_bfs", "shortest_path_bfs_filtered", "shortest_distance_bfs",
     "average_bacon_number", "adjacent", "get_neighbours", "get_all_vertices",
     "get_common_movies", "get_similarity_score", "recommend_movies",
     "get_recommendations"}

\* C23: no step of a query (its call, a turn of its loop, its return or its
\* exception) changes the graph: the keys, and each vertex's kind,
\* neighbours, appearances, cast members and attributes stay as they were.
C23_QueriesReadOnly ==
    [][call'.op \in QueryOps => vertices' = vertices]_vars

\* a get_common_movies call has returned a movie two different actors share,
\* one of them with a movie the other is not in
C23_Witness ==
    /\ pc = "done"
    /\ call.op = "get_common_movies"
    /\ err = "none"
    /\ ret # {}
    /\ call.item1 # call.item2
    /\ vertices[call.item1].appearences # ret

\* C24: get_common_movies(item1, item2) with both keys in the graph returns
\* exactly the movies that are in the appearances of both, the same set as
\* with the keys swapped; with a key that is not in the graph it raises
\* ValueError.
C24_CommonMovies ==
    (pc = "done" /\ call.op = "get_common_movies") =>
        IF InGraph(call.item1) /\ InGraph(call.item2)
        THEN /\ err = "none"
             /\ \A m \in QMovies \cup ret :
                    m \in ret <=> /\ m \in vertices[call.item1].appearences
                                  /\ m \in vertices[call.item2].appearences
             /\ ret = get_common_movies(call.item2, call.item1)
        ELSE err = "ValueError"

\* get_common_movies has returned one movie for two different actors that
\* have each appeared in some movie
C24_Witness ==
    /\ pc = "done"
    /\ call.op = "get_common_movies"
    /\ err = "none"
    /\ call.item1 # call.item2
    /\ Cardinality(ret) = 1
    /\ vertices[call.item1].appearences \cup vertices[call.item2].appearences # ret

\* C26: when create_actor_graph has returned, every cast member of every
\* movie is a vertex of kind 'actor', the appearances of each actor are
\* exactly the movies whose cast holds the actor, and two different actors
\* are neighbours exactly when some movie has both in its cast.
C26_ActorGraph ==
    (pc = "idle" /\ call.op = "initialize_graphs") =>
        /\ \A i \in DOMAIN movies : \A a \in movies[i].cast :
                InGraph(a) /\ vertices[a].kind = "actor"
        /\ \A a \in DOMAIN vertices :
                vertices[a].appearences =
                    {movies[i].name : i \in {j \in DOMAIN movies : a \in movies[j].cast}}
        /\ \A a \in DOMAIN vertices, b \in DOMAIN vertices :
                a # b =>
                    (b \in vertices[a].neighbours <=>
                        \E i \in DOMAIN movies : {a, b} \subseteq movies[i].cast)

\* the loader has returned a graph in which two actors share a movie and one
\* of them is in a movie without the other
C26_Witness ==
    /\ pc = "idle"
    /\ call.op = "initialize_graphs"
    /\ \E a \in DOMAIN vertices, b \in DOMAIN vertices :
            /\ a # b
            /\ b \in vertices[a].neighbours
            /\ vertices[a].appearences # vertices[b].appearences

(***************************************************************************)
(* create_recommended_movie_graph (src/graph_create.py), called with the   *)
(* movie and the list that get_recommendations has returned for it.        *)
(***************************************************************************)
\* the graph the function has built when it stops, and the exception that
\* stops it: after add_vertex(main_movie, 'movie') it calls
\* graph.add_sim_score, a method Graph does not have
recommended_movie_graph(main_movie, recommendations) ==
    [raised |-> "AttributeError",
     graph |-> put_vertex(EmptyGraph, main_movie, "movie")]

create_recommended_movie_graph ==
    /\ pc = "done"
    /\ call.op = "get_recommendations"
    /\ err = "none"
    /\ call' = [op |-> "create_recommended_movie_graph",
                main_movie |-> call.movie, recommendations |-> ret[1]]
    /\ LET built == recommended_movie_graph(call.movie, ret[1])
       IN  /\ vertices' = built.graph
           /\ err' = built.raised
    /\ UNCHANGED <<pc, ret, bfsVars, dataVars>>

InitMovieGraph ==
    /\ movies \in SimDatasets
    /\ vertices = EmptyGraph
    /\ prev = NoCall
    /\ pc = "idle"
    /\ call = NoCall
    /\ queue = <<>>
    /\ visited = {}
    /\ distances = <<>>
    /\ ret = <<>>
    /\ err = "none"

NextMovieGraph ==
    \/ \E m \in SimMovies : get_recommendations(m, NumSimMovies, "", 0, 0)
    \/ create_recommended_movie_graph

SpecMovieGraph == InitMovieGraph /\ [][NextMovieGraph]_vars

\* C27 (as claimed): create_recommended_movie_graph returns a graph in which
\* every recommended movie is adjacent to main_movie and no two recommended
\* movies are adjacent to each other.
C27_StarGraph ==
    (pc = "done" /\ call.op = "create_recommended_movie_graph") =>
        /\ err = "none"
        /\ \A i \in DOMAIN call.recommendations :
                adjacent(call.recommendations[i], call.main_movie)
        /\ \A i \in DOMAIN call.recommendations, j \in DOMAIN call.recommendations :
                i # j => ~adjacent(call.recommendations[i], call.recommendations[j])

\* C28 (as claimed): filter_by_key with both actors in the graph and the
\* key 'year' or 'rating' returns (True, S), S the movies both actors have
\* appeared in whose year or rating lies in [lower, upper], when S is not
\* empty, and (False, empty set) when it is empty, for either key.
C28_FilterByKey ==
    (/\ pc = "done"
     /\ call.op = "filter_by_key"
     /\ InGraph(call.actor1)
     /\ InGraph(call.actor2)
     /\ call.key \in {"year", "rating"}) =>
        LET common == vertices[call.actor1].appearences
                        \cap vertices[call.actor2].appearences
            S == {m \in common :
                    /\ call.lower <= AttrOf(m, call.key)
                    /\ AttrOf(m, call.key) <= call.upper}
        IN  /\ err = "none"
            /\ ret = <<S # {}, S>>

(***************************************************************************)
(* The three searches run to their end.  The graph is the actor graph of a *)
(* dictionary whose movies have two cast members each, so that every graph *)
(* on the actors, with its cycles, is the graph of some dictionary.  A     *)
(* call that has started goes on to its next turn: the loops are fair.     *)
(***************************************************************************)
\* number of actor names of the searched graphs
NumLoopActors == 3

LoopActors == {ActorNames[i] : i \in 1..NumLoopActors}

LoopPairs == {p \in (1..NumLoopActors) \X (1..NumLoopActors) : p[1] < p[2]}

\* the movie of a pair of actors
PairMovie(p) ==
    [name |-> MovieNames[((p[2] - 1) * (p[2] - 2)) \div 2 + p[1]],
     cast |-> {ActorNames[p[1]], ActorNames[p[2]]},
     info |-> <<1, 0, 1>>]

LoopDataset(pairs) ==
    LET order == SeqOf(pairs)
    IN  [i \in 1..Len(order) |-> PairMovie(order[i])]

InitLoop ==
    /\ \E pairs \in SUBSET LoopPairs : movies = LoopDataset(pairs)
    /\ vertices = create_actor_graph(movies)
    /\ prev = NoCall
    /\ pc = "idle"
    /\ call = NoCall
    /\ queue = <<>>
    /\ visited = {}
    /\ distances = <<>>
    /\ ret = <<>>
    /\ err = "none"

NextLoop ==
    \/ \E s \in LoopActors, t \in LoopActors : shortest_path_bfs(s, t)
    \/ shortest_path_bfs_loop
    \/ \E s \in LoopActors, t \in LoopActors, key \in QKeys, r \in QRanges :
            shortest_path_bfs_filtered(s, t, key, r[1], r[2])
    \/ shortest_path_bfs_filtered_loop
    \/ \E s \in LoopActors : shortest_distance_bfs(s)
    \/ shortest_distance_bfs_loop

SpecLoop ==
    /\ InitLoop
    /\ [][NextLoop]_vars
    /\ WF_vars(shortest_path_bfs_loop)
    /\ WF_vars(shortest_path_bfs_filtered_loop)
    /\ WF_vars(shortest_distance_bfs_loop)

\* C30: a search that is in its loop, on any graph on the actors, cycles
\* included, comes to its end: it returns or raises.
C30_SearchTerminates ==
    (pc \in {"path", "filtered", "distance"}) ~> (pc = "done")

\* a filtered search on a graph in which every actor lies on a cycle has
\* returned a path of more than one key
C30_Witness ==
    /\ pc = "done"
    /\ call.op = "shortest_path_bfs_filtered"
    /\ err = "none"
    /\ Len(ret) >= 2
    /\ Cardinality(DOMAIN vertices) >= 3
    /\ \A k \in DOMAIN vertices : Cardinality(vertices[k].neighbours) >= 2

====
